---- MODULE Spec2Model ----
(***************************************************************************)
(* Model of parray.py: the PhasedArray object, its element generator       *)
(* (common_PA_elements), field synthesis (calc_field), render, simulate    *)
(* and the animate sweep with its external collaborators (savefig and the  *)
(* video encoder).                                                         *)
(*                                                                         *)
(* Numbers are exact rationals [n, d] in lowest terms with d > 0.          *)
(* Lengths (el_x, el_y, the grid axis) are kept as the rational            *)
(* coefficient of pi; phases are rationals in radians.  sqrt and sin are   *)
(* not interpreted: one element's contribution az * sin(sqrt(r2) + pz) at  *)
(* a grid point is the term [amp, r2, phi] (r2 the squared distance, in    *)
(* units of pi^2) and a field value is the formal sum of its terms in the  *)
(* order the code adds them, the empty sum being 0.                        *)
(***************************************************************************)
EXTENDS Integers, Sequences, FiniteSets, TLC

\* ---------------------------------------------------------------- bounds
MaxRes    == 2
MaxElNum  == 2
MaxFrames == 2
MaxCalls  == 1

\* ------------------------------------------------------ exact arithmetic
Abs(a) == IF a < 0 THEN -a ELSE a

RECURSIVE GCD(_, _)
GCD(a, b) == IF b = 0 THEN a ELSE GCD(b, a % b)

Rat(n, d) ==
    LET s == IF d < 0 THEN -1 ELSE 1
        g == GCD(Abs(n), Abs(d))
    IN  [n |-> (s * n) \div g, d |-> (s * d) \div g]

RInt(k)    == [n |-> k, d |-> 1]
RAdd(a, b) == Rat(a.n * b.d + b.n * a.d, a.d * b.d)
RNeg(a)    == [n |-> -a.n, d |-> a.d]
RSub(a, b) == RAdd(a, RNeg(b))
RMul(a, b) == Rat(a.n * b.n, a.d * b.d)
RDiv(a, b) == Rat(a.n * b.d, a.d * b.n)

\* Python 2 "/" on two ints (floor division); used only as a variant
FloorDiv(a, b) == RInt((a.n * b.d) \div (a.d * b.n))

\* ---------------------------------------------------------- np.linspace
\* variant: the stop value is excluded (step = delta / num)
LinspaceNoEndpoint(start, stop, num) ==
    IF num <= 0 THEN <<>>
    ELSE [k \in 1..num |->
            RAdd(RMul(RInt(k - 1), RDiv(RSub(stop, start), RInt(num))), start)]

\* variant: never returns fewer than one sample
LinspaceAtLeastOne(start, stop, num) ==
    IF num <= 1 THEN <<start>>
    ELSE [k \in 1..num |->
            IF k = num THEN stop
            ELSE RAdd(RMul(RInt(k - 1),
                           RDiv(RSub(stop, start), RInt(num - 1))), start)]

\* np.linspace(start, stop, num), endpoint included:
\* y = arange(num) * step + start with step = (stop - start) / (num - 1),
\* y = arange(num) * delta + start when num - 1 = 0, and y[-1] = stop for num > 1
Linspace(start, stop, num) ==
    LET div   == num - 1
        delta == RSub(stop, start)
        y(k)  == IF div > 0
                 THEN RAdd(RMul(RInt(k - 1), RDiv(delta, RInt(div))), start)
                 ELSE RAdd(RMul(RInt(k - 1), delta), start)
    IN  [k \in 1..num |-> IF num > 1 /\ k = num THEN stop ELSE y(k)]

\* ------------------------------------------------- replaceable generator
\* variant: the generator also advances the phase step it reads
common_PA_elements_advances(s) ==
    LET half == RDiv(RInt(s.el_num - 1), RInt(2))
        el_n == Linspace(RNeg(half), half, s.el_num)
    IN  [s EXCEPT
          !.el_x   = [k \in 1..Len(el_n) |-> RMul(RMul(RInt(2), s.el_sep), el_n[k])],
          !.el_y   = [k \in 1..Len(el_n) |-> RMul(el_n[k], RInt(0))],
          !.el_amp = [k \in 1..Len(el_n) |-> RInt(1)],
          !.el_phi = [k \in 1..Len(el_n) |-> RMul(el_n[k], s.el_phs)],
          !.el_phs = RAdd(s.el_phs, RInt(1)),
          !.layout_set = TRUE]

\* el_n = linspace(-(el_num - 1.0)/2, (el_num - 1.0)/2, el_num)
\* el_x = 2 pi el_sep el_n (coefficient of pi), el_y = el_n * 0,
\* el_amp = ones, el_phi = el_n * el_phs
common_PA_elements(s) ==
    LET half == RDiv(RInt(s.el_num - 1), RInt(2))
        el_n == Linspace(RNeg(half), half, s.el_num)
    IN  [s EXCEPT
          !.el_x   = [k \in 1..Len(el_n) |-> RMul(RMul(RInt(2), s.el_sep), el_n[k])],
          !.el_y   = [k \in 1..Len(el_n) |-> RMul(el_n[k], RInt(0))],
          !.el_amp = [k \in 1..Len(el_n) |-> RInt(1)],
          !.el_phi = [k \in 1..Len(el_n) |-> RMul(el_n[k], s.el_phs)],
          !.layout_set = TRUE]

\* gen_elements = common_PA_elements
gen_elements(s) == common_PA_elements(s)

\* ------------------------------------------------------ field synthesis
\* np.zeros((res, res)): every entry the empty sum
Zeros(res) == [j \in 1..res |-> [k \in 1..res |-> <<>>]]

\* x0 = y0 = linspace(-2 pi rng, 2 pi rng, res) (coefficient of pi)
Axis(s) == Linspace(RNeg(RMul(RInt(2), s.rng)), RMul(RInt(2), s.rng), s.res)

\* np.meshgrid(a, b): X[j][k] = a[k], Y[j][k] = b[j]
MeshX(a, b) == [j \in 1..Len(b) |-> [k \in 1..Len(a) |-> a[k]]]
MeshY(a, b) == [j \in 1..Len(b) |-> [k \in 1..Len(a) |-> b[j]]]

\* the value one pass of the loop body adds at grid point (j, k):
\* xt, yt = x0 - xz, y0 - yz; xi, yi = meshgrid(xt, yt) (xi[j][k] = xt[k],
\* yi[j][k] = yt[j]); val = az * sin(sqrt(xi^2 + yi^2) + pz)
Val(x0, y0, xz, yz, az, pz, j, k) ==
    LET xi == RSub(x0[k], xz)
        yi == RSub(y0[j], yz)
    IN  [amp |-> az, r2 |-> RAdd(RMul(xi, xi), RMul(yi, yi)), phi |-> pz]

Min(a, b) == IF a < b THEN a ELSE b

\* for xz, yz, az, pz in zip(el_x, el_y, el_amp, el_phi): z = z + val, the
\* first m passes, the values added at each grid point in loop order
Accumulate(z, x0, s, m) ==
    [j \in 1..Len(z) |-> [k \in 1..Len(z[j]) |->
        z[j][k] \o [e \in 1..m |->
                      Val(x0, x0, s.el_x[e], s.el_y[e], s.el_amp[e], s.el_phi[e], j, k)]]]

ZipLen(s) == Min(Min(Len(s.el_x), Len(s.el_y)), Min(Len(s.el_amp), Len(s.el_phi)))

\* variant: the field is not re-initialised and keeps the earlier call's sum
calc_field_keeps_z(s) ==
    LET x0 == Axis(s)
        z0 == IF s.field_set THEN s._z ELSE Zeros(s.res)
    IN  [s EXCEPT !._z = Accumulate(z0, x0, s, ZipLen(s)),
                  !._x = MeshX(x0, x0), !._y = MeshY(x0, x0),
                  !.field_set = TRUE]

\* calc_field on an object whose layout exists
calc_field(s) ==
    LET x0 == Axis(s)
    IN  [s EXCEPT !._z = Accumulate(Zeros(s.res), x0, s, ZipLen(s)),
                  !._x = MeshX(x0, x0), !._y = MeshY(x0, x0),
                  !.field_set = TRUE]

\* calc_field on an object without el_x: _z, _x, _y are assigned, then the
\* zip over self.el_x raises AttributeError
calc_field_no_layout(s) ==
    LET x0 == Axis(s)
    IN  [s EXCEPT !._z = Zeros(s.res),
                  !._x = MeshX(x0, x0), !._y = MeshY(x0, x0),
                  !.field_set = TRUE]

\* ------------------------------------------------------------- renderer
Blank == [drawn |-> FALSE, z |-> <<>>, el_x |-> <<>>, el_y |-> <<>>,
          el_amp |-> <<>>, el_phi |-> <<>>]

\* render: the figure shows the field and the element layout
render(s) ==
    [s EXCEPT !._fig = [drawn |-> TRUE, z |-> s._z, el_x |-> s.el_x,
                        el_y |-> s.el_y, el_amp |-> s.el_amp,
                        el_phi |-> s.el_phi]]

\* render that raises part way (missing attribute or plotting failure): the
\* axes have been cleared
render_fails(s) == [s EXCEPT !._fig = Blank]

\* ------------------------------------------------------------ inputs
ResValues    == 1..MaxRes
RngValues    == {RInt(1)}
ElNumValues  == 0..MaxElNum
PhaseRanges  == {RInt(1), Rat(-1, 2)}
\* the frames argument: an int, or a float (int = FALSE) such as 2.0
FramesValues == {[int |-> TRUE, v |-> k] : k \in (-1)..MaxFrames}
                \cup {[int |-> FALSE, v |-> 2]}

\* ------------------------------------------------------------- state
VARIABLES
    self,         \* the PhasedArray object
    pc,           \* "idle", or the statement animate is about to run
    i,            \* animate's loop variable
    phase_range,  \* animate's argument
    frames,       \* animate's argument
    p0,           \* el_phs when the latest animate call started
    trace,        \* the steps the latest animate call has run
    frames_out,   \* the frame files the latest animate call has written
    result,       \* how the latest animate call ended
    err,          \* the exception the latest call or statement raised
    calcLog,      \* inputs and result of every calc_field that returned
    ncalls        \* number of animate calls so far

vars == <<self, pc, i, phase_range, frames, p0, trace, frames_out, result,
          err, calcLog, ncalls>>

\* PhasedArray.__init__: el_x .. el_phi and _z, _x, _y do not exist yet
NewPhasedArray(res, rng, el_sep, el_num, el_phs) ==
    [res |-> res, rng |-> rng, el_sep |-> el_sep, el_num |-> el_num,
     el_phs |-> el_phs,
     layout_set |-> FALSE, el_x |-> <<>>, el_y |-> <<>>, el_amp |-> <<>>,
     el_phi |-> <<>>,
     field_set |-> FALSE, _z |-> <<>>, _x |-> <<>>, _y |-> <<>>,
     _fig |-> Blank]

\* the objects constructed: every res and el_num, with el_sep and el_phs
\* alternating over their values
Presets ==
    {NewPhasedArray(res, rng,
                    IF res % 2 = 1 THEN Rat(1, 2) ELSE RInt(1),
                    el_num,
                    IF el_num % 2 = 1 THEN RInt(0) ELSE Rat(1, 2)) :
        res \in ResValues, rng \in RngValues, el_num \in ElNumValues}

Init ==
    /\ self \in Presets
    /\ pc = "idle"
    /\ i = 0
    /\ phase_range = RInt(0)
    /\ frames = [int |-> TRUE, v |-> 0]
    /\ p0 = self.el_phs
    /\ trace = <<>>
    /\ frames_out = <<>>
    /\ result = "none"
    /\ err = "none"
    /\ calcLog = {}
    /\ ncalls = 0

\* what a calc_field call was given and what it produced
CalcEntry(before, after) ==
    [res |-> before.res, rng |-> before.rng, el_x |-> before.el_x,
     el_y |-> before.el_y, el_amp |-> before.el_amp, el_phi |-> before.el_phi,
     z |-> after._z]

animateVars == <<pc, i, phase_range, frames, p0, trace, frames_out, result,
                 ncalls>>

\* --------------------------------------------- calls made by the client
GenElements ==
    /\ pc = "idle"
    /\ self' = gen_elements(self)
    /\ err' = "none"
    /\ UNCHANGED <<animateVars, calcLog>>

CalcField ==
    /\ pc = "idle"
    /\ IF self.layout_set
       THEN /\ self' = calc_field(self)
            /\ calcLog' = calcLog \cup {CalcEntry(self, self')}
            /\ err' = "none"
       ELSE /\ self' = calc_field_no_layout(self)
            /\ calcLog' = calcLog
            /\ err' = "AttributeError"
    /\ UNCHANGED animateVars

Render ==
    /\ pc = "idle"
    /\ IF self.layout_set /\ self.field_set
       THEN /\ self' = render(self)
            /\ err' = "none"
       ELSE /\ self' = render_fails(self)
            /\ err' = "AttributeError"
    /\ UNCHANGED <<animateVars, calcLog>>

\* simulate: gen_elements, calc_field, render, show
Simulate ==
    /\ pc = "idle"
    /\ LET s1 == gen_elements(self)
           s2 == calc_field(s1)
       IN  /\ self' = render(s2)
           /\ calcLog' = calcLog \cup {CalcEntry(s1, s2)}
    /\ err' = "none"
    /\ UNCHANGED animateVars

\* ------------------------------------------------------------ animate
\* the statements of the loop body, in program order
BodyOrderIncFirst == <<"inc", "gen", "calc", "render", "save">>

BodyOrder == <<"gen", "calc", "render", "save", "inc">>

Pos(p) == CHOOSE j \in 1..Len(BodyOrder) : BodyOrder[j] = p

\* variant: the loop test admits k = n (one iteration too many)
LoopHeadInclusive(k, n) == IF k <= n THEN BodyOrder[1] ELSE "encode"

\* for i in range(frames): the statement reached when the loop variable
\* would become k of range(n)
LoopHead(k, n) == IF k < n THEN BodyOrder[1] ELSE "encode"

\* an exception raised inside animate is retried at the same statement
AfterFailureRetry(p) == p

\* an exception raised inside animate leaves animate (no try/except)
AfterFailure(p) == "idle"

Event(ev, s) == [ev |-> ev, i |-> i, phs |-> s.el_phs]

\* control after body statement p has completed
Advance(p) ==
    IF Pos(p) < Len(BodyOrder)
    THEN /\ pc' = BodyOrder[Pos(p) + 1]
         /\ i' = i
    ELSE /\ pc' = LoopHead(i + 1, frames.v)
         /\ i' = IF i + 1 < frames.v THEN i + 1 ELSE i

\* statement p raised kind
Raise(p, kind) ==
    /\ pc' = AfterFailure(p)
    /\ err' = kind
    /\ result' = IF pc' = "idle" THEN kind ELSE result

Animate(pr, fr) ==
    /\ pc = "idle"
    /\ ncalls < MaxCalls
    /\ ncalls' = ncalls + 1
    /\ phase_range' = pr
    /\ frames' = fr
    /\ p0' = self.el_phs
    /\ trace' = <<>>
    /\ frames_out' = <<>>
    /\ i' = 0
    /\ IF fr.int
       THEN /\ pc' = LoopHead(0, fr.v)
            /\ result' = "running"
            /\ err' = "none"
       ELSE \* range(frames) raises TypeError
            /\ pc' = "idle"
            /\ result' = "TypeError"
            /\ err' = "TypeError"
    /\ UNCHANGED <<self, calcLog>>

AnimateGen ==
    /\ pc = "gen"
    /\ self' = gen_elements(self)
    /\ trace' = Append(trace, Event("gen", self'))
    /\ err' = "none"
    /\ Advance("gen")
    /\ UNCHANGED <<phase_range, frames, p0, frames_out, result, calcLog, ncalls>>

AnimateCalc ==
    /\ pc = "calc"
    /\ self' = calc_field(self)
    /\ calcLog' = calcLog \cup {CalcEntry(self, self')}
    /\ trace' = Append(trace, Event("calc", self'))
    /\ err' = "none"
    /\ Advance("calc")
    /\ UNCHANGED <<phase_range, frames, p0, frames_out, result, ncalls>>

AnimateRender ==
    /\ pc = "render"
    /\ self' = render(self)
    /\ trace' = Append(trace, Event("render", self'))
    /\ err' = "none"
    /\ Advance("render")
    /\ UNCHANGED <<phase_range, frames, p0, frames_out, result, calcLog, ncalls>>

AnimateRenderFails ==
    /\ pc = "render"
    /\ self' = render_fails(self)
    /\ trace' = Append(trace, Event("render_fail", self'))
    /\ Raise("render", "RenderError")
    /\ UNCHANGED <<i, phase_range, frames, p0, frames_out, calcLog, ncalls>>

\* filename = path + prefix + '%03d' % i + '.png'; savefig(filename)
AnimateSave ==
    /\ pc = "save"
    /\ frames_out' = Append(frames_out, [idx |-> i, fig |-> self._fig])
    /\ trace' = Append(trace, Event("save", self))
    /\ err' = "none"
    /\ Advance("save")
    /\ UNCHANGED <<self, phase_range, frames, p0, result, calcLog, ncalls>>

AnimateSaveFails ==
    /\ pc = "save"
    /\ trace' = Append(trace, Event("save_fail", self))
    /\ Raise("save", "IOError")
    /\ UNCHANGED <<self, i, phase_range, frames, p0, frames_out, calcLog, ncalls>>

\* variant: Python 2 integer division of phase_range by frames
PhaseStepFloor(pr, n) == FloorDiv(pr, RInt(n))

\* phase_range / frames: true division (the module calls print as a
\* function, i.e. Python 3), in exact arithmetic
PhaseStep(pr, n) == RDiv(pr, RInt(n))

\* self.el_phs = self.el_phs + phase_range / frames
AnimateInc ==
    /\ pc = "inc"
    /\ self' = [self EXCEPT !.el_phs = RAdd(self.el_phs, PhaseStep(phase_range, frames.v))]
    /\ trace' = Append(trace, Event("inc", self'))
    /\ err' = "none"
    /\ Advance("inc")
    /\ UNCHANGED <<phase_range, frames, p0, frames_out, result, calcLog, ncalls>>

\* self.vencode(path, prefix): ffmpeg_x264, subprocess.check_call returns
AnimateEncode ==
    /\ pc = "encode"
    /\ trace' = Append(trace, Event("encode", self))
    /\ pc' = "idle"
    /\ err' = "none"
    /\ result' = "returned"
    /\ UNCHANGED <<self, i, phase_range, frames, p0, frames_out, calcLog, ncalls>>

\* check_call raises: CalledProcessError (non-zero exit), OSError (no binary)
AnimateEncodeFails ==
    /\ pc = "encode"
    /\ trace' = Append(trace, Event("encode_fail", self))
    /\ \E kind \in {"CalledProcessError", "OSError"} : Raise("encode", kind)
    /\ UNCHANGED <<self, i, phase_range, frames, p0, frames_out, calcLog, ncalls>>

AnimateStep ==
    \/ AnimateGen
    \/ AnimateCalc
    \/ AnimateRender
    \/ AnimateRenderFails
    \/ AnimateSave
    \/ AnimateSaveFails
    \/ AnimateInc
    \/ AnimateEncode
    \/ AnimateEncodeFails

Next ==
    \/ GenElements
    \/ CalcField
    \/ Render
    \/ Simulate
    \/ \E pr \in PhaseRanges, fr \in FramesValues : Animate(pr, fr)
    \/ AnimateGen
    \/ AnimateCalc
    \/ AnimateRender
    \/ AnimateRenderFails
    \/ AnimateSave
    \/ AnimateSaveFails
    \/ AnimateInc
    \/ AnimateEncode
    \/ AnimateEncodeFails

Spec == Init /\ [][Next]_vars

PcValues == {"idle", "gen", "calc", "render", "save", "inc", "encode"}

\* control moves on from the statement a running animate call is at.  Every
\* AnimateStep changes pc, no other step does while pc # "idle", and some
\* AnimateStep is enabled exactly when pc # "idle" (StepsAreAdvances), so
\* weak fairness of AnimateAdvances is weak fairness of AnimateStep.
AnimateAdvances == pc # "idle" /\ pc' \in PcValues /\ pc' # pc

StepsAreAdvances == [][(pc # "idle" /\ pc' # pc) <=> AnimateStep]_vars

\* a running animate call always executes its next statement
FairSpec == Spec /\ WF_pc(AnimateAdvances)

TypeOK ==
    /\ pc \in PcValues
    /\ ncalls \in 0..MaxCalls
    /\ self.res \in ResValues
    /\ self.el_num \in ElNumValues
    /\ result \in {"none", "running", "returned", "TypeError", "RenderError",
                   "IOError", "CalledProcessError", "OSError"}
    /\ (pc # "idle") => result = "running"

\* ------------------------------------------------------------ helpers
\* n_k = k - (N - 1)/2 for the 0-based index k = idx - 1
Centre(idx, n) == Rat(2 * (idx - 1) - (n - 1), 2)

EventsOf(ev) == SelectSeq(trace, LAMBDA e : e.ev = ev)

FailEvents == {"render_fail", "save_fail", "encode_fail"}

Failed == \E j \in 1..Len(trace) : trace[j].ev \in FailEvents

Called == ncalls > 0

\* the latest animate call has returned normally
Returned == Called /\ result = "returned"

\* el_phs while frame k of the sweep is produced
PhaseAt(k) == RAdd(p0, RMul(RInt(k), RDiv(phase_range, RInt(frames.v))))

\* ---------------------------------------------------------------- C1
C1_State ==
    (Called /\ frames.int /\ frames.v >= 0) =>
        /\ \A k \in 1..Len(frames_out) : frames_out[k].idx = k - 1
        /\ Len(frames_out) <= frames.v
        /\ Len(EventsOf("gen")) <= frames.v
        /\ Returned =>
              /\ Len(frames_out) = frames.v
              /\ \A ev \in {"gen", "calc", "render", "save", "inc"} :
                    Len(EventsOf(ev)) = frames.v

\* C1: for frames = N >= 0, animate runs exactly N loop iterations, writes
\* exactly the frames 0, 1, ..., N-1 in increasing order (none skipped or
\* repeated) when every collaborator succeeds, and a running call terminates.
C1_ExactlyNFrames == [](C1_State) /\ ((pc # "idle") ~> (pc = "idle"))

C1_Witness ==
    /\ Returned
    /\ frames.v = 2
    /\ Len(frames_out) = 2
    /\ frames_out[2].idx = 1

\* ---------------------------------------------------------------- C2
\* C2: for frames = N >= 1, once animate has completed el_phs = p0 +
\* phase_range, and each of the N increments was phase_range / N.
C2_IncrementsSumToRange ==
    (Returned /\ frames.v >= 1) =>
        LET incs == EventsOf("inc")
            before(m) == IF m = 1 THEN p0 ELSE incs[m - 1].phs
        IN  /\ self.el_phs = RAdd(p0, phase_range)
            /\ Len(incs) = frames.v
            /\ \A m \in 1..Len(incs) :
                  RMul(RSub(incs[m].phs, before(m)), RInt(frames.v)) = phase_range

C2_Witness ==
    /\ Returned
    /\ frames.v = 2
    /\ phase_range = RInt(1)
    /\ self.el_phs = RAdd(p0, RInt(1))

\* ---------------------------------------------------------------- C3
\* C3: animate with a frames value that is not a positive integer fails at
\* once with an error: no frame is generated or written, the encoder is not
\* invoked, el_phs is unchanged, and the call is not treated as an empty sweep.
C3_NonPositiveFramesRejected ==
    (Called /\ (~frames.int \/ frames.v <= 0)) =>
        /\ pc = "idle"
        /\ trace = <<>>
        /\ frames_out = <<>>
        /\ self.el_phs = p0
        /\ result \in {"TypeError", "ValueError"}

\* ---------------------------------------------------------------- C4
\* C4: animate with frames = 0 is a no-op: no element generation, no field
\* synthesis, no frame file, no collaborator (renderer, frame writer, video
\* encoder) invoked, el_phs unchanged.
C4_ZeroFramesNoOp ==
    (Called /\ frames.int /\ frames.v = 0) =>
        /\ pc = "idle"
        /\ trace = <<>>
        /\ frames_out = <<>>
        /\ self.el_phs = p0

\* ---------------------------------------------------------------- C5
\* C5: for el_num = N >= 1, right after gen_elements the four layout
\* sequences have N entries each and, with n_i = i - (N-1)/2,
\* el_x[i] = 2 pi el_sep n_i, el_y[i] = 0, el_amp[i] = 1, el_phi[i] = n_i el_phs;
\* positions and phases are antisymmetric about the array centre.
C5_Layout(s) ==
    LET n == s.el_num IN
    /\ Len(s.el_x) = n /\ Len(s.el_y) = n
    /\ Len(s.el_amp) = n /\ Len(s.el_phi) = n
    /\ \A idx \in 1..n :
          /\ s.el_x[idx] = RMul(RMul(RInt(2), s.el_sep), Centre(idx, n))
          /\ s.el_y[idx] = RInt(0)
          /\ s.el_amp[idx] = RInt(1)
          /\ s.el_phi[idx] = RMul(Centre(idx, n), s.el_phs)
          /\ s.el_x[idx] = RNeg(s.el_x[n + 1 - idx])
          /\ s.el_phi[idx] = RNeg(s.el_phi[n + 1 - idx])

C5_LayoutFormula ==
    [][((GenElements \/ AnimateGen) /\ self.el_num >= 1) => C5_Layout(self')]_vars

\* gen_elements has just run in the second iteration of a sweep
C5_Witness ==
    /\ pc = "calc"
    /\ i = 1
    /\ self.el_num = 2
    /\ self.el_phs = RInt(1)
    /\ self.el_phi = <<Rat(-1, 2), Rat(1, 2)>>
    /\ self.el_x = <<RInt(-1), RInt(1)>>

\* ---------------------------------------------------------------- C6
AllZero(z, res) ==
    /\ Len(z) = res
    /\ \A j \in 1..res : Len(z[j]) = res /\ \A k \in 1..res : z[j][k] = <<>>

\* C6: with el_num = 0, gen_elements returns normally with four empty
\* sequences, and the calc_field that follows returns normally with a
\* res x res matrix whose every entry is 0.
C6_ZeroElements ==
    [][(self.el_num = 0) =>
          /\ (GenElements \/ AnimateGen) =>
                /\ err' = "none"
                /\ self'.el_x = <<>> /\ self'.el_y = <<>>
                /\ self'.el_amp = <<>> /\ self'.el_phi = <<>>
          /\ ((CalcField \/ AnimateCalc) /\ self.layout_set) =>
                /\ err' = "none"
                /\ AllZero(self'._z, self.res)]_vars

\* calc_field has just run in a sweep over an array of no elements
C6_Witness ==
    /\ self.el_num = 0
    /\ pc = "render"
    /\ err = "none"
    /\ self.layout_set /\ self.el_x = <<>>
    /\ self.res = 2
    /\ AllZero(self._z, 2)

\* ---------------------------------------------------------------- C7
\* C7: any two calc_field calls, whatever ran before them, that were given
\* equal res, rng and layout produced equal values matrices.
C7_FieldIsFunctionOfLayout ==
    \A a \in calcLog, b \in calcLog :
        (/\ a.res = b.res /\ a.rng = b.rng
         /\ a.el_x = b.el_x /\ a.el_y = b.el_y
         /\ a.el_amp = b.el_amp /\ a.el_phi = b.el_phi) => a.z = b.z

\* the second calc_field of a sweep ran on the layout of the first, after a
\* non-zero field had been stored
C7_Witness ==
    /\ Len(EventsOf("calc")) = 2
    /\ trace[Len(trace)].ev = "calc"
    /\ self.el_num = 1
    /\ self.el_phs # p0
    /\ Len(frames_out) = 1
    /\ frames_out[1].fig.el_phi = self.el_phi
    /\ frames_out[1].fig.z = self._z
    /\ self._z[1][1] # <<>>

\* ---------------------------------------------------------------- C8
Pattern == <<"gen", "calc", "render", "save", "inc">>

BaseEvent(ev) == IF ev = "render_fail" THEN "render"
                 ELSE IF ev = "save_fail" THEN "save" ELSE ev

\* C8: in every iteration the steps run in the order gen_elements,
\* calc_field, render, frame write, phase increment; frame k is written
\* while el_phs = p0 + k (phase_range / N), shows el_phi[i] = n_i el_phs for
\* that el_phs, and shows the field synthesized from exactly that layout.
C8_IterationOrder ==
    (Called /\ frames.int) =>
        /\ \A j \in 1..Len(trace) :
              BaseEvent(trace[j].ev) \in {"gen", "calc", "render", "save", "inc"} =>
                  /\ BaseEvent(trace[j].ev) = Pattern[((j - 1) % 5) + 1]
                  /\ trace[j].i = (j - 1) \div 5
                  /\ trace[j].ev = "save" => trace[j].phs = PhaseAt(trace[j].i)
        /\ \A k \in 1..Len(frames_out) :
              LET f == frames_out[k] IN
              /\ f.fig.drawn
              /\ Len(f.fig.el_phi) = self.el_num
              /\ \A m \in 1..self.el_num :
                    f.fig.el_phi[m] = RMul(Centre(m, self.el_num), PhaseAt(f.idx))
              /\ \E c \in calcLog :
                    /\ c.el_x = f.fig.el_x /\ c.el_y = f.fig.el_y
                    /\ c.el_amp = f.fig.el_amp /\ c.el_phi = f.fig.el_phi
                    /\ c.z = f.fig.z

C8_Witness ==
    /\ Called
    /\ frames.v = 2
    /\ self.el_num = 2
    /\ phase_range = RInt(1)
    /\ Len(frames_out) = 2
    /\ frames_out[1].fig.el_phi # frames_out[2].fig.el_phi
    /\ frames_out[1].fig.el_phi[2] = RMul(Rat(1, 2), p0)

\* ---------------------------------------------------------------- C9
\* C9: a collaborator's failure leaves animate at once and is never
\* retried: nothing runs after the failed step, a failed write of frame k
\* leaves no frame with a higher index and no encoder run; the encoder runs
\* at most once, only after all N frames were written, and an encoder
\* failure is raised to the caller.
C9_FailuresSurfaceNoRetry ==
    (Called /\ frames.int) =>
        /\ Len(EventsOf("encode")) + Len(EventsOf("encode_fail")) <= 1
        /\ \A j \in 1..Len(trace) :
              /\ trace[j].ev \in FailEvents =>
                    /\ j = Len(trace)
                    /\ pc = "idle"
                    /\ result \notin {"none", "running", "returned"}
              /\ trace[j].ev = "save_fail" =>
                    /\ \A k \in 1..Len(frames_out) : frames_out[k].idx < trace[j].i
                    /\ EventsOf("encode") = <<>> /\ EventsOf("encode_fail") = <<>>
              /\ trace[j].ev \in {"encode", "encode_fail"} =>
                    /\ j = Len(trace)
                    /\ \A k \in 0..(frames.v - 1) :
                          \E m \in 1..Len(frames_out) : frames_out[m].idx = k
                    /\ \A m \in 1..(j - 1) : trace[m].ev \notin FailEvents

C9_Witness ==
    /\ Called
    /\ frames.v = 2
    /\ Len(trace) = 9
    /\ trace[9].ev = "save_fail"
    /\ Len(frames_out) = 1
    /\ pc = "idle"
    /\ result = "IOError"

\* --------------------------------------------------------------- C10
\* C10: no step changes res, rng, el_sep or el_num; el_phs changes only in
\* animate's increment, the last statement of a loop iteration (after the
\* frame write, before the loop head), never in gen_elements, calc_field,
\* render or simulate.
C10_ConfigFrame ==
    [][ /\ self'.res = self.res
        /\ self'.rng = self.rng
        /\ self'.el_sep = self.el_sep
        /\ self'.el_num = self.el_num
        /\ (self'.el_phs # self.el_phs) =>
              /\ pc = "inc"
              /\ trace # <<>>
              /\ trace[Len(trace)].ev = "save"
              /\ pc' \in {"gen", "encode"} ]_vars

C10_Witness ==
    /\ trace # <<>>
    /\ trace[Len(trace)].ev = "inc"
    /\ self.el_phs # p0
    /\ self.layout_set /\ self.field_set
    /\ self.el_phi # <<>>
====
